---- MODULE Spec2Model ----
(***************************************************************************)
(* Model of the Gonk native window (src/src/gonk_gfx.rs): the two-slot     *)
(* buffer swap chain behind dequeue_buffer / queue_buffer / cancel_buffer,  *)
(* the hardware-composer call made by draw, and set_usage / set_format /    *)
(* set_dimensions.  The producer (the windowing framework that calls the    *)
(* function table) and the hardware composer are the environment.           *)
(***************************************************************************)
EXTENDS Integers, FiniteSets, Sequences, TLC

\* ---------------------------------------------------------------- bounds
\* Number of fence file descriptors the environment can create in one run.
MaxFd == 3
\* Number of buffer allocations (two per successful set_usage) in one run.
MaxAlloc == 4
\* Largest value the environment lets a reference count reach.
MaxRef == 2

\* Number of inc_ref and dec_ref calls the threads make in one run.
MaxOps == 3

\* ------------------------------------------------------ program constants
\* bufs: [Option<*mut GonkNativeWindowBuffer>; 2]
NumBufs == 2
\* Option::None in a slot; buffer identities are 1, 2, ...
None == 0
\* "no fence": fences: [-1, -1], retire_fence_fd: -1
NoFence == -1
\* last_idx: -1, and the value a scan yields when it falls off the array
NoIdx == -1

\* query's attribute codes
NATIVE_WINDOW_WIDTH == 0
NATIVE_WINDOW_HEIGHT == 1
NATIVE_WINDOW_FORMAT == 2
NATIVE_WINDOW_DEFAULT_WIDTH == 6
NATIVE_WINDOW_DEFAULT_HEIGHT == 7
NATIVE_WINDOW_TRANSFORM_HINT == 8
NATIVE_WINDOW_CONSUMER_USAGE_BITS == 10
NATIVE_WINDOW_DEFAULT_DATASPACE == 12
NATIVE_WINDOW_BUFFER_AGE == 13
\* The codes query is called with: the nine it knows and one it does not.
Whats == {0, 1, 2, 3, 6, 7, 8, 10, 12, 13}

Slots == 0 .. (NumBufs - 1)
Fds == 0 .. (MaxFd - 1)
BufIds == 1 .. MaxAlloc
\* status codes a hardware composer call can return (0 is success)
Statuses == {0, -22}
\* pixel formats and gralloc usage bits the caller may request
Formats == {0, 1}
Usages == {256, 2048}
\* the usage bits GonkNativeWindow::new is given
InitUsages == {256}
\* the usage bits the producer of Spec configures the window with
ProducerUsages == {2048}
Widths == {480}
Heights == {854}
\* the dimensions a set_dimensions call asks for
ReqWidths == {320}
ReqHeights == {240}

VARIABLES
    bufs,       \* window.bufs: slot -> buffer id or None
    fences,     \* window.fences: slot -> fence fd or NoFence
    last_idx,   \* window.last_idx
    width,      \* window.width
    height,     \* window.height
    format,     \* window.format
    usage,      \* window.usage
    alive,      \* FALSE once an assert! has aborted the process
    bufobj,     \* the allocated GonkNativeWindowBuffer structs, by id
    count,      \* window.count, the window's reference count
    wdestroyed, \* number of times the window's Box has been dropped
    bdestroyed, \* buffer -> number of times its Box has been dropped
    freed,      \* buffer -> number of alloc_device.free calls on its handle
    nextBuf,    \* next buffer identity Box::new will produce
    nextFd,     \* next fence fd the environment will create
    closed,     \* fd -> number of close(fd) calls made by the window
    handed,     \* fd -> number of times dequeue_buffer returned it
    held,       \* buffers the producer holds (dequeued, not yet given back)
    presented,  \* the buffer of the most recent successful queue_buffer
    onScreen,   \* the buffer of the most recent queue_buffer whose set
                \* returned 0, where the specification records it
    lastIn,     \* buffer in a slot -> how it entered it, and with which fence
    lastOp,     \* the most recent call: its arguments and results
    thr,        \* thread -> where it is in an inc_ref or dec_ref, on which
                \* object, and the count it has read
    retains,    \* object -> number of inc_ref calls that have returned
    releases,   \* object -> number of dec_ref calls that have returned
    slots,      \* touch reader: slot -> tracking_id, x, y
    last_x,     \* touch reader's locals of the same names
    last_y,
    first_x,
    first_y,
    last_dist,
    touch_count,
    current_slot,
    tracking_updated,
    tev,        \* the kernel input event the reader handled last
    sent,       \* the WindowEvents it sent while handling it, in order
    changed,    \* a contact began or ended since the last SYN_REPORT
    ended0      \* slot 0's contact ended since the last SYN_REPORT

swapvars == <<bufs, fences, last_idx>>
confvars == <<width, height, format, usage>>
envvars == <<nextFd, closed, handed, held, presented, onScreen, lastIn>>
refvars == <<count, wdestroyed, bdestroyed, freed>>
racevars == <<thr, retains, releases>>
touchvars == <<slots, last_x, last_y, first_x, first_y, last_dist, touch_count,
               current_slot, tracking_updated, tev, sent, changed, ended0>>
vars == <<bufs, fences, last_idx, width, height, format, usage, alive, bufobj,
          count, wdestroyed, bdestroyed, freed,
          nextBuf, nextFd, closed, handed, held, presented, onScreen, lastIn,
          lastOp, racevars, touchvars>>

\* slots: [InputSlot; 10]
SlotCount == 10
\* tracking_id of a slot without a contact
NoContact == -1
\* x_info.minimum and y_info.minimum, as the EVIOCGABS ioctls report them
XMin == 0
YMin == 0
\* The values the kernel's events carry: slot numbers (10 is not a slot),
\* tracking ids, and raw positions.
SlotValues == {0, 1, 10}
TrackingIds == {-1, 1, 2}
RawXs == {0, 4}
RawYs == {1}
\* last_dist: 0f32, the root of a squared distance of 0
ZeroDist == [sq |-> 0]

\* The threads that call inc_ref and dec_ref at the same time.
Threads == {1, 2}
\* What a reference count belongs to: the window (0) or a buffer.
Window == 0
Objs == {Window} \cup BufIds
\* A thread that is in no call.
Idle == [pc |-> "idle", op |-> "none", obj |-> Window, reg |-> 0]

\* The window can be called: the process runs and the window's Box exists.
Usable == alive /\ wdestroyed = 0

\* A call record; the fields a call does not use keep these values.
NoCall ==
    [op |-> "new", ret |-> 0, buf |-> None, fence |-> NoFence, arg |-> 0,
     arg2 |-> 0, prep |-> 0, set |-> 0, rel |-> NoFence, retire |-> NoFence,
     calls |-> <<>>, allocs |-> <<>>, value |-> 0,
     list |-> [retire_fence_fd |-> NoFence, num_hw_layers |-> 0]]

\* ------------------------------------------------------------ environment
\* A new fence fd, or none; none is the only choice once the fds are used up.
Fresh(n) == IF n < MaxFd THEN {NoFence, n} ELSE {NoFence}

After(n, f) == IF f = NoFence THEN n ELSE n + 1

\* One more occurrence of fd in a per-fd counter; -1 is no fd and is not counted.
Bump(cnt, fd) == IF fd \in DOMAIN cnt THEN [cnt EXCEPT ![fd] = @ + 1] ELSE cnt

\* libc close(fd): closing -1 fails with EBADF and closes nothing.
Close(cl, fd) == Bump(cl, fd)

\* ------------------------------------------------------------- the window
\* GonkNativeWindow::new
Init ==
    /\ bufs = [i \in Slots |-> None]
    /\ fences = [i \in Slots |-> NoFence]
    /\ last_idx = NoIdx
    /\ width \in Widths
    /\ height \in Heights
    /\ format = 0
    /\ usage \in InitUsages
    /\ alive = TRUE
    /\ bufobj = <<>>
    /\ count = 1
    /\ wdestroyed = 0
    /\ bdestroyed = [b \in BufIds |-> 0]
    /\ freed = [b \in BufIds |-> 0]
    /\ nextBuf = 1
    /\ nextFd = 0
    /\ closed = [f \in Fds |-> 0]
    /\ handed = [f \in Fds |-> 0]
    /\ held = {}
    /\ presented = None
    /\ onScreen = None
    /\ lastIn = [b \in BufIds |-> [how |-> "none", rel |-> NoFence]]
    /\ lastOp = NoCall
    /\ thr = [t \in Threads |-> Idle]
    /\ retains = [o \in Objs |-> 0]
    /\ releases = [o \in Objs |-> 0]
    /\ slots = [i \in 0 .. (SlotCount - 1) |->
                   [tracking_id |-> NoContact, x |-> 0, y |-> 0]]
    /\ last_x = 0
    /\ last_y = 0
    /\ first_x = 0
    /\ first_y = 0
    /\ last_dist = ZeroDist
    /\ touch_count = 0
    /\ current_slot = 0
    /\ tracking_updated = FALSE
    /\ tev = [kind |-> "none", value |-> 0]
    /\ sent = <<>>
    /\ changed = FALSE
    /\ ended0 = FALSE

\* dequeue_buffer's loop without the test against last_idx.
RECURSIVE DequeueScanNoSkip(_, _, _)
DequeueScanNoSkip(idx, bs, last) ==
    IF idx >= NumBufs THEN NoIdx
    ELSE IF bs[idx] # None THEN idx
    ELSE DequeueScanNoSkip(idx + 1, bs, last)

\* dequeue_buffer's loop running from the last slot down to the first.
RECURSIVE DequeueScanDown(_, _, _)
DequeueScanDown(idx, bs, last) ==
    LET i == NumBufs - 1 - idx IN
    IF idx >= NumBufs THEN NoIdx
    ELSE IF i = last THEN DequeueScanDown(idx + 1, bs, last)
    ELSE IF bs[i] # None THEN i
    ELSE DequeueScanDown(idx + 1, bs, last)

\* The loop of dequeue_buffer: the first slot, from idx on, that is not
\* last_idx and holds a buffer; NoIdx when the loop ends without a return.
RECURSIVE DequeueScan(_, _, _)
DequeueScan(idx, bs, last) ==
    IF idx >= NumBufs THEN NoIdx
    ELSE IF idx = last THEN DequeueScan(idx + 1, bs, last)
    ELSE IF bs[idx] # None THEN idx
    ELSE DequeueScan(idx + 1, bs, last)

\* dequeue_buffer handing the buffer out without emptying its slot.
DequeueEffectKeep(bs, fs, last, idx) ==
    [ret |-> 0, buf |-> bs[idx], fence |-> fs[idx], bufs |-> bs,
     fences |-> [fs EXCEPT ![idx] = NoFence], last_idx |-> last]

\* The body of dequeue_buffer's Some(entry) arm for slot idx.
DequeueEffect(bs, fs, last, idx) ==
    [ret |-> 0,
     buf |-> bs[idx],
     fence |-> fs[idx],
     bufs |-> [bs EXCEPT ![idx] = None],
     fences |-> [fs EXCEPT ![idx] = NoFence],
     last_idx |-> last]

DequeueBuffer ==
    /\ Usable
    /\ UNCHANGED <<racevars, touchvars>>
    /\ UNCHANGED refvars
    /\ LET idx == DequeueScan(0, bufs, last_idx) IN
       IF idx # NoIdx
       THEN LET e == DequeueEffect(bufs, fences, last_idx, idx) IN
            /\ bufs' = e.bufs
            /\ fences' = e.fences
            /\ last_idx' = e.last_idx
            /\ held' = held \cup {e.buf}
            /\ handed' = Bump(handed, e.fence)
            /\ lastOp' = [NoCall EXCEPT !.op = "dequeue", !.ret = e.ret,
                                        !.buf = e.buf, !.fence = e.fence]
            /\ lastIn' = [lastIn EXCEPT ![e.buf] = [how |-> "out",
                                                         rel |-> NoFence]]
            /\ UNCHANGED <<confvars, alive, bufobj, nextBuf, nextFd, closed,
                           presented, onScreen>>
       ELSE /\ lastOp' = [NoCall EXCEPT !.op = "dequeue", !.ret = -1]
            /\ UNCHANGED <<swapvars, confvars, alive, bufobj, nextBuf,
                           envvars>>

\* The width of an f32's significand, in bits.
F32Bits == 24

\* 2^24: every integer of smaller magnitude is an f32.
F32Exact == 16777216

RECURSIVE Pow2(_)
Pow2(n) == IF n = 0 THEN 1 ELSE 2 * Pow2(n - 1)

\* The number of bits of a >= 0.
RECURSIVE BitLen(_)
BitLen(a) == IF a = 0 THEN 0 ELSE 1 + BitLen(a \div 2)

\* x as f32: x itself when it fits the significand, else the nearest multiple
\* of the unit in the last place, ties to the even one.  The float is
\* written as the integer it equals.
AsF32(x) ==
    LET a == IF x < 0 THEN -x ELSE x
        sign == IF x < 0 THEN -1 ELSE 1
    IN  IF a < F32Exact THEN x
        ELSE LET ulp == Pow2(BitLen(a) - F32Bits)
                 lo == (a \div ulp) * ulp
                 r == a - lo
                 up == \/ 2 * r > ulp
                       \/ 2 * r = ulp /\ (lo \div ulp) % 2 = 1
             IN  sign * (IF up THEN lo + ulp ELSE lo)

\* draw calling set without prepare.
DrawSetOnly(gonkbuf, handle, fence, prep_res, set_res, rel, retire) ==
    [ret |-> rel, prep_res |-> prep_res, set_res |-> set_res,
     calls |-> <<"set">>,
     list |-> [retire_fence_fd |-> retire, num_hw_layers |-> 2],
     close |-> IF retire >= 0 THEN retire ELSE NoFence]

\* draw closing layer 1's release fence instead of the retire fence.
DrawClosesRelease(gonkbuf, handle, fence, prep_res, set_res, rel, retire) ==
    [ret |-> rel, prep_res |-> prep_res, set_res |-> set_res,
     calls |-> <<"prepare", "set">>,
     list |-> [retire_fence_fd |-> retire, num_hw_layers |-> 2],
     close |-> IF rel >= 0 THEN rel ELSE NoFence]

\* draw leaving layer 1's acquire fence at -1, as layer 0's is.
DrawNoAcquireFence(gonkbuf, handle, fence, prep_res, set_res, rel, retire) ==
    LET rect == [left |-> 0, top |-> 0,
                 right |-> gonkbuf.width, bottom |-> gonkbuf.height]
        zero == [left |-> 0, top |-> 0, right |-> 0, bottom |-> 0]
        list == [retire_fence_fd |-> retire,
                 num_hw_layers |-> 2,
                 hw_layers |->
                    [i \in 0 .. 1 |->
                        [handle |-> IF i = 0 THEN None ELSE handle,
                         source_crop |-> IF i = 0 THEN zero ELSE rect,
                         display_frame |-> IF i = 0 THEN zero ELSE rect,
                         acquire_fence_fd |-> NoFence,
                         release_fence_fd |-> IF i = 0 THEN NoFence
                                              ELSE rel]]]
    IN  [ret |-> rel, prep_res |-> prep_res, set_res |-> set_res,
         calls |-> <<"prepare", "set">>, list |-> list,
         close |-> IF retire >= 0 THEN retire ELSE NoFence]

\* draw returning layer 0's release fence instead of layer 1's.
DrawLayer0(gonkbuf, handle, fence, prep_res, set_res, rel, retire) ==
    [ret |-> NoFence, prep_res |-> prep_res, set_res |-> set_res,
     calls |-> <<"prepare", "set">>,
     list |-> [retire_fence_fd |-> retire, num_hw_layers |-> 2],
     close |-> IF retire >= 0 THEN retire ELSE NoFence]

\* draw returning the composer's status when prepare or set fails.
DrawPropagating(gonkbuf, handle, fence, prep_res, set_res, rel, retire) ==
    [ret |-> IF prep_res # 0 THEN prep_res
             ELSE IF set_res # 0 THEN set_res ELSE rel,
     prep_res |-> prep_res, set_res |-> set_res,
     calls |-> <<"prepare", "set">>,
     list |-> [retire_fence_fd |-> retire, num_hw_layers |-> 2],
     close |-> IF retire >= 0 THEN retire ELSE NoFence]

\* GonkNativeWindow::draw.  prep_res and set_res are the statuses the composer
\* returns from prepare and set; rel and retire are what it leaves in layer
\* 1's release_fence_fd and in the list's retire_fence_fd (both start at -1).
Draw(gonkbuf, handle, fence, prep_res, set_res, rel, retire) ==
    LET rect == [left |-> 0, top |-> 0,
                 right |-> gonkbuf.width, bottom |-> gonkbuf.height]
        list == [retire_fence_fd |-> retire,
                 num_hw_layers |-> 2,
                 hw_layers |->
                    [i \in 0 .. 1 |->
                        IF i = 0
                        THEN [handle |-> None,
                              source_crop |-> [left |-> 0, top |-> 0,
                                               right |-> 0, bottom |-> 0],
                              display_frame |-> [left |-> 0, top |-> 0,
                                                 right |-> 0, bottom |-> 0],
                              acquire_fence_fd |-> NoFence,
                              release_fence_fd |-> NoFence]
                        ELSE [handle |-> handle,
                              source_crop |->
                                 [left |-> 0, top |-> 0,
                                  right |-> AsF32(gonkbuf.width),
                                  bottom |-> AsF32(gonkbuf.height)],
                              display_frame |-> rect,
                              acquire_fence_fd |-> fence,
                              release_fence_fd |-> rel]]]
    IN  [ret |-> list.hw_layers[1].release_fence_fd,
         prep_res |-> prep_res,
         set_res |-> set_res,
         calls |-> <<"prepare", "set">>,
         list |-> list,
         close |-> IF list.retire_fence_fd >= 0 THEN list.retire_fence_fd
                   ELSE NoFence]

\* The loop of queue_buffer: the first empty slot from idx on, or NoIdx.
RECURSIVE QueueScan(_, _)
QueueScan(idx, bs) ==
    IF idx >= NumBufs THEN NoIdx
    ELSE IF bs[idx] = None THEN idx
    ELSE QueueScan(idx + 1, bs)

\* queue_buffer recording the fence it was given instead of draw's result.
QueueEffectOwnFence(bs, fs, last, idx, b, d) ==
    [ret |-> 0, last_idx |-> idx, bufs |-> [bs EXCEPT ![idx] = b],
     fences |-> [fs EXCEPT ![idx] = d.list.hw_layers[1].acquire_fence_fd]]

\* queue_buffer recording the other slot as the presented one.
QueueEffectLastOther(bs, fs, last, idx, b, d) ==
    [ret |-> 0, last_idx |-> (NumBufs - 1) - idx,
     bufs |-> [bs EXCEPT ![idx] = b], fences |-> [fs EXCEPT ![idx] = d.ret]]

\* queue_buffer storing the buffer without moving last_idx.
QueueEffectKeepsLast(bs, fs, last, idx, b, d) ==
    [ret |-> 0, last_idx |-> last, bufs |-> [bs EXCEPT ![idx] = b],
     fences |-> [fs EXCEPT ![idx] = d.ret]]

\* queue_buffer giving up, slot untouched, when the composer reports failure.
QueueEffectDropOnFailure(bs, fs, last, idx, b, d) ==
    IF d.prep_res # 0 \/ d.set_res # 0
    THEN [ret |-> -1, last_idx |-> last, bufs |-> bs, fences |-> fs]
    ELSE [ret |-> 0, last_idx |-> idx, bufs |-> [bs EXCEPT ![idx] = b],
          fences |-> [fs EXCEPT ![idx] = d.ret]]

\* The body of queue_buffer's None arm for slot idx; d is what draw did.
QueueEffect(bs, fs, last, idx, b, d) ==
    [ret |-> 0,
     last_idx |-> idx,
     bufs |-> [bs EXCEPT ![idx] = b],
     fences |-> [fs EXCEPT ![idx] = d.ret]]

\* queue_buffer.  What is on screen afterwards is recorded by ScreenShows or
\* left alone, as the specification says.
QueueBuffer ==
    /\ Usable
    /\ UNCHANGED <<racevars, touchvars>>
    /\ UNCHANGED refvars
    /\ \E b \in {h \in held : bdestroyed[h] = 0}, f \in Fresh(nextFd) :
         LET idx == QueueScan(0, bufs)
             n1 == After(nextFd, f)
         IN
         IF idx # NoIdx
         THEN \E prep \in Statuses, set \in Statuses, rel \in Fresh(n1) :
              \E retire \in Fresh(After(n1, rel)) :
                 LET d == Draw(bufobj[b], b, f, prep, set, rel, retire)
                     e == QueueEffect(bufs, fences, last_idx, idx, b, d)
                 IN
                 /\ bufs' = e.bufs
                 /\ fences' = e.fences
                 /\ last_idx' = e.last_idx
                 /\ closed' = Close(closed, d.close)
                 /\ nextFd' = After(After(n1, rel), retire)
                 /\ held' = IF e.ret = 0 THEN held \ {b} ELSE held
                 /\ presented' = IF e.ret = 0 THEN b ELSE presented
                 /\ lastIn' = [lastIn EXCEPT ![b] = [how |-> "submit",
                                                     rel |-> rel]]
                 /\ lastOp' = [NoCall EXCEPT !.op = "queue", !.ret = e.ret,
                                  !.buf = b, !.fence = f, !.prep = prep,
                                  !.set = set, !.rel = rel, !.retire = retire,
                                  !.calls = d.calls, !.list = d.list]
                 /\ UNCHANGED <<confvars, alive, bufobj, nextBuf, handed>>
         ELSE /\ nextFd' = n1
              /\ lastOp' = [NoCall EXCEPT !.op = "queue", !.ret = -1,
                                          !.buf = b, !.fence = f]
              /\ UNCHANGED <<swapvars, confvars, alive, bufobj, nextBuf,
                             closed, handed, held, presented, lastIn>>

\* After a queue_buffer: the buffer is on screen if draw ran and the composer's
\* set returned 0.
ScreenShows ==
    onScreen' = IF lastOp'.calls # <<>> /\ lastOp'.set = 0 THEN lastOp'.buf
                ELSE onScreen

\* The loop of cancel_buffer: the first empty slot from idx on, or NoIdx.
RECURSIVE CancelScan(_, _)
CancelScan(idx, bs) ==
    IF idx >= NumBufs THEN NoIdx
    ELSE IF bs[idx] = None THEN idx
    ELSE CancelScan(idx + 1, bs)

\* cancel_buffer marking the slot as presented, as queue_buffer does.
CancelEffectSetsLast(bs, fs, last, cl, idx, b, fence) ==
    [ret |-> 0, last_idx |-> idx, bufs |-> [bs EXCEPT ![idx] = b],
     fences |-> [fs EXCEPT ![idx] = NoFence], closed |-> Close(cl, fence),
     calls |-> <<>>]

\* The body of cancel_buffer's None arm for slot idx.
CancelEffect(bs, fs, last, cl, idx, b, fence) ==
    [ret |-> 0,
     last_idx |-> last,
     bufs |-> [bs EXCEPT ![idx] = b],
     fences |-> [fs EXCEPT ![idx] = NoFence],
     closed |-> Close(cl, fence),
     calls |-> <<>>]

\* cancel_buffer when its loop ends without finding an empty slot.
CancelFail(bs, fs, last, cl, b, fence) ==
    [ret |-> -1, last_idx |-> last, bufs |-> bs, fences |-> fs, closed |-> cl,
     calls |-> <<>>]

CancelBuffer ==
    /\ Usable
    /\ UNCHANGED <<racevars, touchvars>>
    /\ UNCHANGED refvars
    /\ \E b \in held, f \in Fresh(nextFd) :
         LET idx == CancelScan(0, bufs)
             e == IF idx # NoIdx
                  THEN CancelEffect(bufs, fences, last_idx, closed, idx, b, f)
                  ELSE CancelFail(bufs, fences, last_idx, closed, b, f)
         IN
         /\ bufs' = e.bufs
         /\ fences' = e.fences
         /\ last_idx' = e.last_idx
         /\ closed' = e.closed
         /\ nextFd' = After(nextFd, f)
         /\ held' = IF e.ret = 0 THEN held \ {b} ELSE held
         /\ lastIn' = IF e.ret = 0
                      THEN [lastIn EXCEPT ![b] = [how |-> "release",
                                                  rel |-> NoFence]]
                      ELSE lastIn
         /\ lastOp' = [NoCall EXCEPT !.op = "cancel", !.ret = e.ret,
                                     !.buf = b, !.fence = f,
                                     !.calls = e.calls]
         /\ UNCHANGED <<confvars, alive, bufobj, nextBuf, handed, presented,
                        onScreen>>

\* GonkNativeWindowBuffer::new: the struct built for a buffer.
NewBuffer(w, h, fmt, usg) ==
    [width |-> w, height |-> h, format |-> fmt, usage |-> usg, count |-> 1]

\* alloc_buffers allocating only for the slots that are empty.
AllocBuffersIfEmpty(bs, objs, nb, w, h, fmt, usg, ok0, ok1) ==
    IF ~ok0
    THEN [alive |-> FALSE, bufs |-> bs, bufobj |-> objs, nextBuf |-> nb]
    ELSE IF ~ok1
    THEN [alive |-> FALSE,
          bufs |-> [bs EXCEPT ![0] = IF @ = None THEN nb ELSE @],
          bufobj |-> objs @@ (nb :> NewBuffer(w, h, fmt, usg)),
          nextBuf |-> nb + 1]
    ELSE [alive |-> TRUE,
          bufs |-> [[bs EXCEPT ![0] = IF @ = None THEN nb ELSE @]
                        EXCEPT ![1] = IF @ = None THEN nb + 1 ELSE @],
          bufobj |-> objs @@ (nb :> NewBuffer(w, h, fmt, usg))
                          @@ ((nb + 1) :> NewBuffer(w, h, fmt, usg)),
          nextBuf |-> nb + 2]

\* alloc_buffers going on after a failed alloc (no assert!).
AllocBuffersNoAssert(bs, objs, nb, w, h, fmt, usg, ok0, ok1) ==
    [alive |-> TRUE,
     bufs |-> [[bs EXCEPT ![0] = nb] EXCEPT ![1] = nb + 1],
     bufobj |-> objs @@ (nb :> NewBuffer(w, h, fmt, usg))
                     @@ ((nb + 1) :> NewBuffer(w, h, fmt, usg)),
     nextBuf |-> nb + 2]

\* GonkNativeWindow::alloc_buffers. ok0 and ok1 tell whether the allocator's
\* alloc succeeds for the first and for the second buffer; a failure trips
\* the assert! in GonkNativeWindowBuffer::new, which ends the process.
AllocBuffers(bs, objs, nb, w, h, fmt, usg, ok0, ok1) ==
    IF ~ok0
    THEN [alive |-> FALSE, bufs |-> bs, bufobj |-> objs, nextBuf |-> nb]
    ELSE IF ~ok1
    THEN [alive |-> FALSE,
          bufs |-> [bs EXCEPT ![0] = nb],
          bufobj |-> objs @@ (nb :> NewBuffer(w, h, fmt, usg)),
          nextBuf |-> nb + 1]
    ELSE [alive |-> TRUE,
          bufs |-> [[bs EXCEPT ![0] = nb] EXCEPT ![1] = nb + 1],
          bufobj |-> objs @@ (nb :> NewBuffer(w, h, fmt, usg))
                          @@ ((nb + 1) :> NewBuffer(w, h, fmt, usg)),
          nextBuf |-> nb + 2]

\* set_usage, called with one of the usage values in U.
SetUsage(U) ==
    /\ Usable
    /\ UNCHANGED <<racevars, touchvars>>
    /\ UNCHANGED refvars
    /\ nextBuf + 1 <= MaxAlloc
    /\ \E u \in U, ok0 \in BOOLEAN, ok1 \in BOOLEAN :
         LET a == AllocBuffers(bufs, bufobj, nextBuf, width, height, format,
                               u, ok0, ok1)
         IN
         /\ ok0 \/ ok1
         /\ usage' = u
         /\ bufs' = a.bufs
         /\ bufobj' = a.bufobj
         /\ nextBuf' = a.nextBuf
         /\ alive' = a.alive
         /\ lastIn' = [b \in BufIds |->
                          IF b \in DOMAIN a.bufobj /\ b \notin DOMAIN bufobj
                          THEN [how |-> "configure", rel |-> NoFence]
                          ELSE lastIn[b]]
         /\ lastOp' = [NoCall EXCEPT !.op = IF a.alive THEN "set_usage"
                                            ELSE "abort",
                                     !.arg = u,
                                     !.allocs = IF ok0 THEN <<ok0, ok1>>
                                                ELSE <<ok0>>]
         /\ UNCHANGED <<fences, last_idx, width, height, format, nextFd,
                        closed, handed, held, presented, onScreen>>

SetFormat ==
    /\ Usable
    /\ UNCHANGED <<racevars, touchvars>>
    /\ UNCHANGED refvars
    /\ \E fmt \in Formats :
         /\ format' = fmt
         /\ lastOp' = [NoCall EXCEPT !.op = "set_format", !.arg = fmt]
    /\ UNCHANGED <<swapvars, width, height, usage, alive, bufobj, nextBuf,
                   envvars>>

SetDimensions ==
    /\ Usable
    /\ UNCHANGED <<racevars, touchvars>>
    /\ UNCHANGED refvars
    /\ \E w \in ReqWidths, h \in ReqHeights :
         lastOp' = [NoCall EXCEPT !.op = "set_dimensions", !.arg = w,
                                  !.arg2 = h]
    /\ UNCHANGED <<swapvars, confvars, alive, bufobj, nextBuf, envvars>>

\* query's match: the status it returns, whether it writes *value, and what
\* it writes.
QueryValue(w, h, fmt, usg, what) ==
    CASE what = NATIVE_WINDOW_WIDTH ->
            [ret |-> 0, written |-> TRUE, value |-> w]
      [] what = NATIVE_WINDOW_HEIGHT ->
            [ret |-> 0, written |-> TRUE, value |-> h]
      [] what = NATIVE_WINDOW_FORMAT ->
            [ret |-> 0, written |-> TRUE, value |-> fmt]
      [] what = NATIVE_WINDOW_DEFAULT_WIDTH ->
            [ret |-> 0, written |-> TRUE, value |-> w]
      [] what = NATIVE_WINDOW_DEFAULT_HEIGHT ->
            [ret |-> 0, written |-> TRUE, value |-> h]
      [] what = NATIVE_WINDOW_TRANSFORM_HINT ->
            [ret |-> 0, written |-> TRUE, value |-> 0]
      [] what = NATIVE_WINDOW_CONSUMER_USAGE_BITS ->
            [ret |-> 0, written |-> TRUE, value |-> usg]
      [] what = NATIVE_WINDOW_DEFAULT_DATASPACE ->
            [ret |-> 0, written |-> TRUE, value |-> 0]
      [] what = NATIVE_WINDOW_BUFFER_AGE ->
            [ret |-> 0, written |-> TRUE, value |-> 0]
      [] OTHER ->
            [ret |-> -1, written |-> FALSE, value |-> 0]

\* query; *value holds 0 before the call.
Query ==
    /\ Usable
    /\ UNCHANGED <<racevars, touchvars>>
    /\ \E what \in Whats :
         LET q == QueryValue(width, height, format, usage, what) IN
         lastOp' = [NoCall EXCEPT !.op = "query", !.arg = what,
                                  !.ret = q.ret, !.value = q.value]
    /\ UNCHANGED <<swapvars, confvars, alive, bufobj, nextBuf, envvars,
                   refvars>>

\* gnw_dec_ref testing the count before it decrements it.
GnwDecRefTestFirst(c) == [count |-> c - 1, drop |-> c = 0]

\* gnw_inc_ref
GnwIncRefEffect(c) == c + 1

\* gnw_dec_ref: the new count, and whether the Box is dropped.
GnwDecRefEffect(c) == [count |-> c - 1, drop |-> c - 1 = 0]

\* gnwb_inc_ref
GnwbIncRefEffect(c) == c + 1

\* gnwb_dec_ref: the new count, and whether the Box is dropped.
GnwbDecRefEffect(c) == [count |-> c - 1, drop |-> c - 1 = 0]

\* Dropping a Box<GonkNativeWindow>: the struct has no Drop impl and holds
\* its buffers as raw pointers, so the buffer structs are left as they are.
DropWindow(objs, bs) == objs

\* Dropping a Box<GonkNativeWindowBuffer>: no Drop impl, the handle is a raw
\* pointer, so alloc_device.free is not called: fr is left as it is.
DropBuffer(fr, b) == fr

GnwIncRef ==
    /\ Usable
    /\ UNCHANGED <<racevars, touchvars>>
    /\ count < MaxRef
    /\ count' = GnwIncRefEffect(count)
    /\ lastOp' = [NoCall EXCEPT !.op = "gnw_inc_ref"]
    /\ UNCHANGED <<swapvars, confvars, alive, bufobj, nextBuf, envvars,
                   wdestroyed, bdestroyed, freed>>

GnwDecRef ==
    /\ Usable
    /\ UNCHANGED <<racevars, touchvars>>
    /\ LET e == GnwDecRefEffect(count) IN
       /\ count' = e.count
       /\ wdestroyed' = IF e.drop THEN wdestroyed + 1 ELSE wdestroyed
       /\ bufobj' = IF e.drop THEN DropWindow(bufobj, bufs) ELSE bufobj
    /\ lastOp' = [NoCall EXCEPT !.op = "gnw_dec_ref"]
    /\ UNCHANGED <<swapvars, confvars, alive, nextBuf, envvars, bdestroyed,
                   freed>>

\* The holder of a reference to a live buffer: the framework, or whoever
\* releases the reference the buffer was created with.
GnwbIncRef ==
    /\ alive
    /\ UNCHANGED <<racevars, touchvars>>
    /\ \E b \in DOMAIN bufobj :
         /\ bdestroyed[b] = 0
         /\ bufobj[b].count < MaxRef
         /\ bufobj' = [bufobj EXCEPT ![b].count = GnwbIncRefEffect(@)]
         /\ lastOp' = [NoCall EXCEPT !.op = "gnwb_inc_ref", !.buf = b]
    /\ UNCHANGED <<swapvars, confvars, alive, nextBuf, envvars, refvars>>

GnwbDecRef ==
    /\ alive
    /\ UNCHANGED <<racevars, touchvars>>
    /\ \E b \in DOMAIN bufobj :
         LET e == GnwbDecRefEffect(bufobj[b].count) IN
         /\ bdestroyed[b] = 0
         /\ bufobj' = [bufobj EXCEPT ![b].count = e.count]
         /\ bdestroyed' = IF e.drop THEN [bdestroyed EXCEPT ![b] = @ + 1]
                          ELSE bdestroyed
         /\ freed' = IF e.drop THEN DropBuffer(freed, b) ELSE freed
         /\ lastOp' = [NoCall EXCEPT !.op = "gnwb_dec_ref", !.buf = b]
    /\ UNCHANGED <<swapvars, confvars, alive, nextBuf, envvars, count,
                   wdestroyed>>

\* ---------------------------------------- inc_ref / dec_ref by two threads
\* count is a plain i32 and "count += 1" / "count -= 1" a read followed by a
\* write, so calls made by two threads at once interleave at those steps.
winvars == <<swapvars, confvars, alive, nextBuf, envvars, freed, lastOp>>

\* The count of object o as memory holds it.
CountOf(o) == IF o = Window THEN count ELSE bufobj[o].count

\* The number of calls made so far, returned or not.
RECURSIVE Sum(_, _)
Sum(f, S) ==
    IF S = {} THEN 0
    ELSE LET x == CHOOSE y \in S : TRUE IN f[x] + Sum(f, S \ {x})

Started ==
    Cardinality({u \in Threads : thr[u].pc # "idle"})
       + Sum(retains, Objs) + Sum(releases, Objs)

\* A thread enters gnw_inc_ref / gnw_dec_ref (o = Window) or gnwb_inc_ref /
\* gnwb_dec_ref on a buffer whose Box has not been dropped.
RefCall(t) ==
    /\ UNCHANGED touchvars
    /\ alive
    /\ thr[t].pc = "idle"
    /\ \E o \in {Window} \cup DOMAIN bufobj, op \in {"inc_ref", "dec_ref"} :
         /\ IF o = Window THEN wdestroyed = 0 ELSE bdestroyed[o] = 0
         /\ Started < MaxOps
         /\ thr' = [thr EXCEPT ![t] = [pc |-> "load", op |-> op, obj |-> o,
                                       reg |-> 0]]
    /\ UNCHANGED <<winvars, bufobj, refvars, retains, releases>>

\* The read of count.
RefLoad(t) ==
    /\ UNCHANGED touchvars
    /\ thr[t].pc = "load"
    /\ thr' = [thr EXCEPT ![t].pc = "store", ![t].reg = CountOf(thr[t].obj)]
    /\ UNCHANGED <<winvars, bufobj, refvars, retains, releases>>

\* The write of count + 1 or count - 1; inc_ref returns after it.
RefStore(t) ==
    /\ UNCHANGED touchvars
    /\ thr[t].pc = "store"
    /\ LET o == thr[t].obj
           new == IF thr[t].op = "inc_ref"
                  THEN IF o = Window THEN GnwIncRefEffect(thr[t].reg)
                       ELSE GnwbIncRefEffect(thr[t].reg)
                  ELSE IF o = Window THEN GnwDecRefEffect(thr[t].reg).count
                       ELSE GnwbDecRefEffect(thr[t].reg).count
       IN  /\ IF o = Window
              THEN count' = new /\ UNCHANGED bufobj
              ELSE bufobj' = [bufobj EXCEPT ![o].count = new]
                   /\ UNCHANGED count
           /\ IF thr[t].op = "inc_ref"
              THEN /\ thr' = [thr EXCEPT ![t] = Idle]
                   /\ retains' = [retains EXCEPT ![o] = @ + 1]
              ELSE /\ thr' = [thr EXCEPT ![t].pc = "test", ![t].reg = new]
                   /\ UNCHANGED retains
    /\ UNCHANGED <<winvars, wdestroyed, bdestroyed, releases>>

\* dec_ref's "if count == 0": the build tests the value it has just written
\* or reads count again; the Box is dropped if the test succeeds.
RefTest(t) ==
    /\ UNCHANGED touchvars
    /\ thr[t].pc = "test"
    /\ LET o == thr[t].obj IN
       \E seen \in {thr[t].reg, CountOf(o)} :
          /\ IF seen # 0
             THEN UNCHANGED <<wdestroyed, bdestroyed>>
             ELSE IF o = Window
             THEN wdestroyed' = wdestroyed + 1 /\ UNCHANGED bdestroyed
             ELSE bdestroyed' = [bdestroyed EXCEPT ![o] = @ + 1]
                  /\ UNCHANGED wdestroyed
          /\ releases' = [releases EXCEPT ![o] = @ + 1]
          /\ thr' = [thr EXCEPT ![t] = Idle]
    /\ UNCHANGED <<winvars, bufobj, count, retains>>


\* ------------------------------------------------------- the touch reader
\* read_input_device (src/src/input.rs): the loop that reads kernel input
\* events from the touch device and sends WindowEvents.
gfxvars == <<winvars, bufobj, refvars, racevars>>

\* "dist < 16" in the touch-up branch
ClickSlop == 16

\* dist(): the f32 root of the squared distance, kept as its argument.
Dist(x1, x2, y1, y2) ==
    LET delta_x == AsF32(x2 - x1)
        delta_y == AsF32(y2 - y1)
    IN  [sq |-> delta_x * delta_x + delta_y * delta_y]

MouseEvent(ev, pt) == [ev |-> ev, button |-> "Left", x |-> pt.x, y |-> pt.y]

\* The touch-up branch sending the click also at a squared distance of 16.
TouchUpWithin(slot_a, fx, fy) ==
    LET delta_x == slot_a.x - fx
        delta_y == slot_a.y - fy
        dist == delta_x * delta_x + delta_y * delta_y
        click_pt == [x |-> AsF32(slot_a.x), y |-> AsF32(slot_a.y)]
    IN  IF dist <= ClickSlop
        THEN <<MouseEvent("MouseDown", click_pt),
               MouseEvent("MouseUp", click_pt),
               MouseEvent("Click", click_pt)>>
        ELSE <<>>

\* The "Touch up" branch: what it sends.
TouchUp(slot_a, fx, fy) ==
    LET delta_x == slot_a.x - fx
        delta_y == slot_a.y - fy
        dist == delta_x * delta_x + delta_y * delta_y
        click_pt == [x |-> AsF32(slot_a.x), y |-> AsF32(slot_a.y)]
    IN  IF dist < ClickSlop
        THEN <<MouseEvent("MouseDown", click_pt),
               MouseEvent("MouseUp", click_pt),
               MouseEvent("Click", click_pt)>>
        ELSE <<>>

\* The (EV_SYN, EV_REPORT) arm: the events it sends and the locals it leaves.
SynReportEffect(sl, tu, fx, fy, lx, ly, ld, tc) ==
    LET slot_a == sl[0]
        slot_b == sl[1]
        keep == [sent |-> <<>>, tracking_updated |-> tu, last_x |-> lx,
                 last_y |-> ly, first_x |-> fx, first_y |-> fy,
                 last_dist |-> ld]
    IN  IF tu
        THEN IF slot_a.tracking_id = NoContact
             THEN [keep EXCEPT !.tracking_updated = FALSE,
                               !.sent = TouchUp(slot_a, fx, fy)]
             ELSE [keep EXCEPT !.tracking_updated = FALSE,
                               !.last_x = slot_a.x, !.last_y = slot_a.y,
                               !.first_x = slot_a.x, !.first_y = slot_a.y,
                               !.last_dist =
                                  IF tc >= 2
                                  THEN Dist(slot_a.x, slot_b.x,
                                            slot_a.y, slot_b.y)
                                  ELSE ld]
        ELSE LET scroll == [ev |-> "Scroll",
                            dx |-> AsF32(slot_a.x - lx),
                            dy |-> AsF32(slot_a.y - ly),
                            x |-> slot_a.x, y |-> slot_a.y,
                            phase |-> "Move"]
                 cur_dist == Dist(slot_a.x, slot_b.x, slot_a.y, slot_b.y)
             IN  [keep EXCEPT !.last_x = slot_a.x, !.last_y = slot_a.y,
                              !.sent =
                                 IF tc >= 2
                                 THEN <<scroll, [ev |-> "Zoom",
                                                 cur |-> cur_dist,
                                                 last |-> ld]>>
                                 ELSE <<scroll>>,
                              !.last_dist = IF tc >= 2 THEN cur_dist ELSE ld]

\* device.read returns: a new pass over the buffer starts.
DeviceRead ==
    /\ tracking_updated' = FALSE
    /\ tev' = [kind |-> "read", value |-> 0]
    /\ sent' = <<>>
    /\ UNCHANGED <<slots, last_x, last_y, first_x, first_y, last_dist,
                   touch_count, current_slot, changed, ended0, gfxvars>>

\* (EV_SYN, EV_REPORT)
SynReport ==
    /\ LET e == SynReportEffect(slots, tracking_updated, first_x, first_y,
                                last_x, last_y, last_dist, touch_count)
       IN  /\ sent' = e.sent
           /\ tracking_updated' = e.tracking_updated
           /\ last_x' = e.last_x
           /\ last_y' = e.last_y
           /\ first_x' = e.first_x
           /\ first_y' = e.first_y
           /\ last_dist' = e.last_dist
    /\ tev' = [kind |-> "syn", value |-> 0]
    /\ changed' = FALSE
    /\ ended0' = FALSE
    /\ UNCHANGED <<slots, touch_count, current_slot, gfxvars>>

\* (EV_ABS, ABS_MT_SLOT)
AbsMtSlot ==
    /\ \E value \in SlotValues :
         /\ current_slot' = IF value < SlotCount THEN value ELSE current_slot
         /\ tev' = [kind |-> "slot", value |-> value]
    /\ sent' = <<>>
    /\ UNCHANGED <<slots, last_x, last_y, first_x, first_y, last_dist,
                   touch_count, tracking_updated, changed, ended0, gfxvars>>

\* (EV_ABS, ABS_MT_POSITION_X)
AbsMtPositionX ==
    /\ \E value \in RawXs :
         /\ slots' = [slots EXCEPT ![current_slot].x = value - XMin]
         /\ tev' = [kind |-> "x", value |-> value]
    /\ sent' = <<>>
    /\ UNCHANGED <<last_x, last_y, first_x, first_y, last_dist, touch_count,
                   current_slot, tracking_updated, changed, ended0, gfxvars>>

\* (EV_ABS, ABS_MT_POSITION_Y)
AbsMtPositionY ==
    /\ \E value \in RawYs :
         /\ slots' = [slots EXCEPT ![current_slot].y = value - YMin]
         /\ tev' = [kind |-> "y", value |-> value]
    /\ sent' = <<>>
    /\ UNCHANGED <<last_x, last_y, first_x, first_y, last_dist, touch_count,
                   current_slot, tracking_updated, changed, ended0, gfxvars>>

\* (EV_ABS, ABS_MT_TRACKING_ID)
AbsMtTrackingId ==
    /\ \E value \in TrackingIds :
         LET current_id == slots[current_slot].tracking_id
             update == /\ current_id # value
                       /\ (current_id = NoContact \/ value = NoContact)
         IN  /\ tracking_updated' = (update \/ tracking_updated)
             /\ touch_count' = IF ~update THEN touch_count
                               ELSE IF value = NoContact THEN touch_count - 1
                               ELSE touch_count + 1
             /\ slots' = [slots EXCEPT ![current_slot].tracking_id = value]
             /\ changed' = (update \/ changed)
             /\ ended0' = \/ ended0
                          \/ (update /\ value = NoContact /\ current_slot = 0)
             /\ tev' = [kind |-> "id", value |-> value]
    /\ sent' = <<>>
    /\ UNCHANGED <<last_x, last_y, first_x, first_y, last_dist, current_slot,
                   gfxvars>>

\* The arms that do nothing or only print: ABS_MT_TOUCH_MAJOR and the like,
\* unknown codes and unknown event types.
OtherEvent ==
    /\ tev' = [kind |-> "other", value |-> 0]
    /\ sent' = <<>>
    /\ UNCHANGED <<slots, last_x, last_y, first_x, first_y, last_dist,
                   touch_count, current_slot, tracking_updated, changed,
                   ended0, gfxvars>>

\* The swap chain and its producer: the producer configures the window with
\* the usage bits of a hardware-composer target and cycles buffers through it.
Next ==
    \/ DequeueBuffer
    \/ (QueueBuffer /\ UNCHANGED onScreen)
    \/ CancelBuffer
    \/ SetUsage(ProducerUsages)

Spec == Init /\ [][Next]_vars

\* A freshly configured window driven through dequeue -> queue cycles only:
\* one set_usage, then each dequeue_buffer is followed by the queue_buffer of
\* the buffer it returned.
CycleNext ==
    \/ (nextBuf = 1 /\ SetUsage(ProducerUsages))
    \/ (nextBuf = 3 /\ held = {} /\ DequeueBuffer)
    \/ (held # {} /\ QueueBuffer /\ UNCHANGED onScreen)

SpecCycle == Init /\ [][CycleNext]_vars

\* The window's configuration: every setter with every value, around a
\* producer that uses no fences and a composer that reports success.
NoFences == nextFd = 0 /\ lastOp.prep = 0 /\ lastOp.set = 0

ConfNext ==
    \/ DequeueBuffer
    \/ (QueueBuffer /\ UNCHANGED onScreen /\ NoFences')
    \/ (CancelBuffer /\ NoFences')
    \/ SetUsage(Usages)
    \/ SetFormat
    \/ SetDimensions

SpecConf == Init /\ [][ConfNext]_vars

\* Reference counting: one set_usage, a producer that uses no fences, and
\* holders that retain and release the window and its buffers.
RefNext ==
    \/ (nextBuf = 1 /\ SetUsage(ProducerUsages))
    \/ DequeueBuffer
    \/ (QueueBuffer /\ UNCHANGED onScreen /\ NoFences')
    \/ (CancelBuffer /\ NoFences')
    \/ GnwIncRef
    \/ GnwDecRef
    \/ GnwbIncRef
    \/ GnwbDecRef

SpecRef == Init /\ [][RefNext]_vars

\* The configuration calls and the queries.
QueryNext ==
    \/ SetUsage(Usages)
    \/ SetFormat
    \/ SetDimensions
    \/ Query

SpecQuery == Init /\ [][QueryNext]_vars

\* Configurations and frames whose prepare and set may fail, with what
\* is on screen recorded; no call passes or yields a fence.
NoFds == nextFd = 0

ScreenNext ==
    \/ SetUsage(ProducerUsages)
    \/ DequeueBuffer
    \/ (QueueBuffer /\ ScreenShows /\ NoFds')
    \/ (CancelBuffer /\ NoFds')

SpecScreen == Init /\ [][ScreenNext]_vars

\* The window, configured once, with its count and its buffers' counts
\* changed by two threads at once.
RaceNext ==
    \/ (nextBuf = 1 /\ SetUsage(ProducerUsages))
    \/ \E t \in Threads : RefCall(t)
    \/ \E t \in Threads : RefLoad(t)
    \/ \E t \in Threads : RefStore(t)
    \/ \E t \in Threads : RefTest(t)

SpecRace == Init /\ [][RaceNext]_vars

\* The touch reader on its own thread, fed by the kernel.
TouchNext ==
    \/ DeviceRead
    \/ SynReport
    \/ AbsMtSlot
    \/ AbsMtPositionX
    \/ AbsMtPositionY
    \/ AbsMtTrackingId
    \/ OtherEvent

SpecTouch == Init /\ [][TouchNext]_vars

\* ------------------------------------------------------------- properties
\* The step just taken was a call of op (lastOp describes the call).
Called(op) == lastOp'.op = op /\ vars' # vars

\* Exactly one set_usage has run, and it succeeded.
ConfiguredOnce == alive /\ nextBuf = 3

\* The slots a dequeue may take a buffer from, and the empty slots.
Eligible == {i \in Slots : i # last_idx /\ bufs[i] # None}
Empty == {i \in Slots : bufs[i] = None}
Lowest(S) == CHOOSE i \in S : \A j \in S : i <= j

\* C1: a successful dequeue_buffer never returns the buffer that sits in slot
\* last_idx, nor the buffer given to the most recent successful queue_buffer.
C1_NeverLastPresented ==
    [][ (Called("dequeue") /\ lastOp'.ret = 0) =>
            /\ last_idx # NoIdx => lastOp'.buf # bufs[last_idx]
            /\ lastOp'.buf # presented ]_vars

\* C1 witness: a buffer was dequeued from slot 1 while slot 0 held the
\* presented buffer.
C1_Witness ==
    /\ lastOp.op = "dequeue" /\ lastOp.ret = 0
    /\ last_idx = 0 /\ bufs[0] # None /\ bufs[0] = presented
    /\ bufs[1] = None /\ lastOp.buf # presented

\* C2: after exactly one set_usage each of its two buffers is in exactly one
\* slot or held by the producer (never both, never two slots), there are as
\* many empty slots as held buffers, and queue_buffer and cancel_buffer
\* return 0.
C2_OnePlacePerBuffer ==
    ConfiguredOnce =>
        /\ \A b \in {1, 2} :
              Cardinality({i \in Slots : bufs[i] = b})
                 + (IF b \in held THEN 1 ELSE 0) = 1
        /\ Cardinality(Empty) = Cardinality(held)
        /\ lastOp.op \in {"queue", "cancel"} => lastOp.ret = 0

\* C2 witness: both buffers were out, one has been cancelled back.
C2_Witness ==
    /\ ConfiguredOnce
    /\ lastOp.op = "cancel" /\ lastOp.ret = 0
    /\ Cardinality(held) = 1 /\ Cardinality(Empty) = 1

\* C3: dequeue_buffer takes the lowest-numbered slot that is not last_idx and
\* holds a buffer: it returns that buffer and that slot's fence, empties the
\* slot and sets its fence to -1; when there is no such slot it returns -1
\* and leaves bufs, fences and last_idx as they were.
C3_DequeueFirstEligible ==
    [][ Called("dequeue") =>
          IF Eligible = {}
          THEN lastOp'.ret = -1 /\ UNCHANGED <<bufs, fences, last_idx>>
          ELSE LET i == Lowest(Eligible) IN
               /\ lastOp'.ret = 0
               /\ lastOp'.buf = bufs[i]
               /\ lastOp'.fence = fences[i]
               /\ bufs' = [bufs EXCEPT ![i] = None]
               /\ fences' = [fences EXCEPT ![i] = NoFence]
               /\ last_idx' = last_idx ]_vars

\* C3 witness: dequeue_buffer failed although slot last_idx holds a buffer.
C3_Witness ==
    /\ lastOp.op = "dequeue" /\ lastOp.ret = -1
    /\ last_idx # NoIdx /\ bufs[last_idx] # None

\* C4: a queue_buffer that finds an empty slot stores the buffer in the
\* lowest-numbered empty slot, sets last_idx to it and records for it the
\* release fence the composer left in layer 1; the other slot and its fence
\* are unchanged.
C4_QueueStoresAndRecords ==
    [][ (Called("queue") /\ Empty # {}) =>
          LET i == Lowest(Empty) IN
          /\ bufs' = [bufs EXCEPT ![i] = lastOp'.buf]
          /\ last_idx' = i
          /\ fences' = [fences EXCEPT ![i] = lastOp'.rel] ]_vars

\* C4 witness: a buffer was queued into slot 1 with a render fence, and the
\* composer's release fence is the one recorded.
C4_Witness ==
    /\ lastOp.op = "queue" /\ lastOp.ret = 0
    /\ lastOp.fence # NoFence /\ lastOp.rel # NoFence
    /\ last_idx = 1 /\ bufs[1] = lastOp.buf /\ fences[1] = lastOp.rel

\* C5: cancel_buffer never changes last_idx and never calls the composer;
\* when a slot is empty it stores the buffer in the lowest-numbered empty
\* slot with fence -1 and leaves the other slot and its fence unchanged.
C5_CancelFrame ==
    [][ Called("cancel") =>
          /\ last_idx' = last_idx
          /\ lastOp'.calls = <<>>
          /\ Empty # {} =>
                LET i == Lowest(Empty) IN
                /\ bufs' = [bufs EXCEPT ![i] = lastOp'.buf]
                /\ fences' = [fences EXCEPT ![i] = NoFence] ]_vars

\* C5 witness: a buffer was cancelled into slot 1 while slot 0 is the
\* presented slot.
C5_Witness ==
    /\ lastOp.op = "cancel" /\ lastOp.ret = 0
    /\ last_idx = 0 /\ bufs[0] # None
    /\ bufs[1] = lastOp.buf /\ fences[1] = NoFence

\* C6 (as claimed): every cancel_buffer call closes the fence it was given
\* exactly once, and no other fence, also when it finds no empty slot and
\* returns -1.
C6_CancelClosesItsFence ==
    [][ Called("cancel") =>
          closed' = [x \in Fds |->
                        IF x = lastOp'.fence THEN closed[x] + 1
                        ELSE closed[x]] ]_vars

\* C7: with exactly one set_usage, the fence dequeue_buffer returns with a
\* buffer is the release fence of that buffer's most recent queue_buffer if it
\* last entered a slot by queue_buffer, and -1 if it entered by set_usage or
\* cancel_buffer; a recorded release fence stays recorded with its buffer
\* until a dequeue returns it, and no fence is returned twice.
C7_AcquireReturnsRecordedFence ==
    [][ /\ (ConfiguredOnce /\ Called("dequeue") /\ lastOp'.ret = 0) =>
              LET b == lastOp'.buf IN
              /\ lastIn[b].how \in {"configure", "submit", "release"}
              /\ lastIn[b].how = "submit" => lastOp'.fence = lastIn[b].rel
              /\ lastIn[b].how # "submit" => lastOp'.fence = NoFence
        /\ ConfiguredOnce' =>
              /\ \A f \in Fds : handed'[f] <= 1
              /\ \A i \in Slots :
                    (bufs'[i] # None /\ lastIn'[bufs'[i]].how = "submit") =>
                        /\ fences'[i] = lastIn'[bufs'[i]].rel
                        /\ fences'[i] \in Fds => handed'[fences'[i]] = 0
      ]_vars

\* C7 witness: a dequeue returned a buffer together with the release fence
\* recorded when that buffer was queued.
C7_Witness ==
    /\ ConfiguredOnce
    /\ lastOp.op = "dequeue" /\ lastOp.ret = 0
    /\ lastOp.fence \in Fds /\ handed[lastOp.fence] = 1
    /\ last_idx = 1 /\ lastOp.buf = 1

\* C8: in dequeue -> queue cycles on a freshly configured window the
\* dequeues return buffer 1 (slot 0's), buffer 2 (slot 1's), buffer 1, ...
\* and last_idx goes 0, 1, 0, ...
C8_RoundRobin ==
    [][ /\ Called("dequeue") =>
              /\ lastOp'.ret = 0
              /\ lastOp'.buf = IF presented = None THEN 1 ELSE 3 - presented
        /\ Called("queue") =>
              /\ lastOp'.ret = 0
              /\ last_idx' = IF last_idx = NoIdx THEN 0 ELSE 1 - last_idx
              /\ bufs'[last_idx'] = lastOp'.buf ]_vars

\* C8 witness: the third dequeue of the run returned buffer 1 again, after
\* buffer 2 was presented from slot 1.
C8_Witness ==
    /\ lastOp.op = "dequeue" /\ lastOp.ret = 0 /\ lastOp.buf = 1
    /\ last_idx = 1 /\ presented = 2 /\ bufs[1] = 2

\* C9: a queue_buffer during which prepare or set returns non-success does
\* the same bookkeeping as a successful one: it returns 0, stores the buffer
\* in the lowest-numbered empty slot, sets last_idx to it and takes the buffer
\* from the producer, so every later call sees the state a successful commit
\* would have left.
C9_ComposerFailureKeepsBookkeeping ==
    [][ (Called("queue") /\ Empty # {}
           /\ (lastOp'.prep # 0 \/ lastOp'.set # 0)) =>
          LET i == Lowest(Empty) IN
          /\ lastOp'.ret = 0
          /\ bufs' = [bufs EXCEPT ![i] = lastOp'.buf]
          /\ last_idx' = i
          /\ held' = held \ {lastOp'.buf}
          /\ presented' = lastOp'.buf ]_vars

\* C9 witness: a queue_buffer whose set failed returned 0 and left its
\* buffer in slot 1, which is now last_idx.
C9_Witness ==
    /\ lastOp.op = "queue" /\ lastOp.ret = 0
    /\ lastOp.prep = 0 /\ lastOp.set # 0
    /\ last_idx = 1 /\ bufs[1] = lastOp.buf

\* C10 (as claimed): draw fails exactly when prepare or set returns
\* non-success and then hands the composer's status to its caller (as
\* queue_buffer's return value or as the value queue_buffer records);
\* otherwise it returns the release fence.
C10_PresentFailsIffComposerFails ==
    [][ (Called("queue") /\ Empty # {}) =>
          LET i == Lowest(Empty)
              codes == {lastOp'.prep, lastOp'.set} \ {0}
          IN
          IF codes # {}
          THEN lastOp'.ret \in codes \/ fences'[i] \in codes
          ELSE lastOp'.ret = 0 /\ fences'[i] = lastOp'.rel ]_vars

\* C10 (amended): draw never fails: whatever prepare and set return, it
\* calls both, hands back what the composer left in layer 1's release fence,
\* and queue_buffer returns 0; no composer status reaches the caller.
C10_PresentNeverFails ==
    [][ (Called("queue") /\ Empty # {}) =>
          LET i == Lowest(Empty)
              codes == {lastOp'.prep, lastOp'.set} \ {0}
          IN
          /\ lastOp'.ret = 0
          /\ lastOp'.calls = <<"prepare", "set">>
          /\ fences'[i] = lastOp'.rel
          /\ fences'[i] \notin codes ]_vars

\* C10 witness: prepare and set both failed and queue_buffer still returned
\* 0 and recorded the composer's release fence.
C10_Witness ==
    /\ lastOp.op = "queue" /\ lastOp.ret = 0
    /\ lastOp.prep # 0 /\ lastOp.set # 0
    /\ lastOp.rel \in Fds /\ fences[last_idx] = lastOp.rel

\* C11: every set_usage that returns, a second one included, puts into both
\* slots two distinct buffers that did not exist before, each built with the
\* window's width, height and format and the usage just set and with count 1,
\* whether the slots were empty or full; the buffers the producer holds and
\* the buffers that existed before are left as they were.
C11_ConfigureReallocatesBoth ==
    [][ Called("set_usage") =>
          /\ usage' = lastOp'.arg
          /\ \A i \in Slots :
                /\ bufs'[i] # None
                /\ bufs'[i] \notin DOMAIN bufobj
                /\ bufobj'[bufs'[i]] =
                      [width |-> width', height |-> height',
                       format |-> format', usage |-> usage', count |-> 1]
          /\ bufs'[0] # bufs'[1]
          /\ held' = held
          /\ \A b \in DOMAIN bufobj : bufobj'[b] = bufobj[b] ]_vars

\* C11 witness: a second set_usage, made after set_format changed the format
\* and while the producer held a buffer and a slot was full, refilled both
\* slots with buffers of the new format.
C11_Witness ==
    /\ lastOp.op = "set_usage" /\ nextBuf = 5
    /\ held = {1} /\ bufs = (0 :> 3 @@ 1 :> 4)
    /\ bufobj[1].format = 0 /\ bufobj[3].format = 1 /\ bufobj[4].format = 1

\* The call described by op made the allocator's alloc fail.
AllocFailed(op) == \E k \in DOMAIN op.allocs : ~op.allocs[k]

\* C12 (as claimed): a set_usage during which alloc fails returns to its
\* caller with a failure status, and while the window is in that state a
\* dequeue_buffer hands out no buffer.
C12_ConfigureReportsAllocFailure ==
    [][ /\ (vars' # vars /\ AllocFailed(lastOp')) =>
               alive' /\ lastOp'.op = "set_usage" /\ lastOp'.ret # 0
        /\ (~alive /\ Called("dequeue")) => lastOp'.ret # 0 ]_vars

\* C12 (amended): a set_usage during which alloc fails never returns: the
\* assert! ends the process, so no call at all follows it; a first buffer
\* that was allocated before the failure is already in slot 0.
C12_AllocFailureEndsProcess ==
    [][ /\ alive
        /\ AllocFailed(lastOp') =>
              /\ ~alive' /\ lastOp'.op = "abort"
              /\ Len(lastOp'.allocs) = 2 =>
                    bufs'[0] \notin DOMAIN bufobj /\ bufs'[1] = bufs[1]
              /\ Len(lastOp'.allocs) = 1 => bufs' = bufs ]_vars

\* C12 witness: the second alloc of a second set_usage failed; the process
\* is gone with a new buffer in slot 0 and the old one in slot 1.
C12_Witness ==
    /\ ~alive /\ lastOp.op = "abort" /\ lastOp.allocs = <<TRUE, FALSE>>
    /\ bufs = (0 :> 3 @@ 1 :> 2)

\* 1 when the step just taken was the call op on buffer b, else 0.
OnBuf(op, b) == IF Called(op) /\ lastOp'.buf = b THEN 1 ELSE 0
OnWin(op) == IF Called(op) THEN 1 ELSE 0

\* C13: the window's count and every buffer's count is 1 at creation, goes
\* up by exactly 1 at each inc_ref and down by exactly 1 at each dec_ref and
\* changes at no other call; the object is dropped exactly at the dec_ref
\* that makes the count 0, once, and never while the count is positive.
C13_RefCounting ==
    /\ count = 1 /\ wdestroyed = 0
    /\ [][ /\ count' = count + OnWin("gnw_inc_ref") - OnWin("gnw_dec_ref")
           /\ wdestroyed' = wdestroyed
                 + (IF Called("gnw_dec_ref") /\ count = 1 THEN 1 ELSE 0)
           /\ wdestroyed' <= 1
           /\ count' > 0 => wdestroyed' = 0
           /\ \A b \in DOMAIN bufobj' :
                 /\ b \notin DOMAIN bufobj =>
                       bufobj'[b].count = 1 /\ bdestroyed'[b] = 0
                 /\ b \in DOMAIN bufobj =>
                       /\ bufobj'[b].count = bufobj[b].count
                             + OnBuf("gnwb_inc_ref", b)
                             - OnBuf("gnwb_dec_ref", b)
                       /\ bdestroyed'[b] = bdestroyed[b]
                             + (IF OnBuf("gnwb_dec_ref", b) = 1
                                   /\ bufobj[b].count = 1 THEN 1 ELSE 0)
                 /\ bdestroyed'[b] <= 1
                 /\ bufobj'[b].count > 0 => bdestroyed'[b] = 0 ]_vars

\* C13 witness: the window was dropped when its count reached 0, buffer 2 was
\* dropped when its count reached 0, and buffer 1 is retained with count 2.
C13_Witness ==
    /\ wdestroyed = 1 /\ count = 0
    /\ 2 \in DOMAIN bufobj
    /\ bdestroyed[2] = 1 /\ bufobj[2].count = 0
    /\ bdestroyed[1] = 0 /\ bufobj[1].count = 2

\* C14 (as claimed): the gnwb_dec_ref that brings a buffer's count to 0 calls
\* the allocator's free on the buffer's handle, exactly once, so no dropped
\* buffer has an unfreed handle.
C14_DropFreesHandle ==
    [][ \A b \in BufIds :
           /\ bdestroyed'[b] = bdestroyed[b] + 1 => freed'[b] = freed[b] + 1
           /\ bdestroyed'[b] >= 1 => freed'[b] = 1 ]_vars

\* C15 (as claimed): the gnw_dec_ref that brings the window's count to 0
\* drops the reference held by each slot on its buffer before the window
\* itself goes.
C15_WindowDropReleasesSlots ==
    [][ wdestroyed' = wdestroyed + 1 =>
          \A i \in Slots :
             bufs[i] # None =>
                bufobj'[bufs[i]].count = bufobj[bufs[i]].count - 1 ]_vars

\* C16 (as claimed): after set_dimensions(w, h) the width and height queries
\* return w and h, after set_format(f) the format query returns f, after
\* set_usage(u) the consumer-usage query returns u, and no other call changes
\* what a query returns.
C16_QueryReturnsRequested ==
    [][ LET now(what) ==
                QueryValue(width', height', format', usage', what).value
            was(what) == QueryValue(width, height, format, usage, what).value
        IN
        /\ IF Called("set_dimensions")
           THEN /\ now(NATIVE_WINDOW_WIDTH) = lastOp'.arg
                /\ now(NATIVE_WINDOW_HEIGHT) = lastOp'.arg2
           ELSE /\ now(NATIVE_WINDOW_WIDTH) = was(NATIVE_WINDOW_WIDTH)
                /\ now(NATIVE_WINDOW_HEIGHT) = was(NATIVE_WINDOW_HEIGHT)
        /\ IF Called("set_format")
           THEN now(NATIVE_WINDOW_FORMAT) = lastOp'.arg
           ELSE now(NATIVE_WINDOW_FORMAT) = was(NATIVE_WINDOW_FORMAT)
        /\ IF Called("set_usage")
           THEN now(NATIVE_WINDOW_CONSUMER_USAGE_BITS) = lastOp'.arg
           ELSE alive' =>
                   now(NATIVE_WINDOW_CONSUMER_USAGE_BITS)
                      = was(NATIVE_WINDOW_CONSUMER_USAGE_BITS) ]_vars

\* C17 (as claimed): whatever the composer's prepare and set return, no
\* dequeue_buffer returns the buffer that is on screen, the buffer of the most
\* recent queue_buffer whose set returned 0.
C17_NeverOnScreen ==
    [][ (Called("dequeue") /\ lastOp'.ret = 0 /\ onScreen # None)
           => lastOp'.buf # onScreen ]_vars

\* C18: a queue_buffer that finds an empty slot has the composer's prepare
\* and then its set called, once each and in that order, on the one layer
\* list draw builds, and returns with both results in hand; a queue_buffer
\* that finds no empty slot, and every dequeue_buffer and cancel_buffer,
\* calls neither.
C18_PrepareThenSet ==
    [][ /\ (Called("queue") /\ QueueScan(0, bufs) # NoIdx) =>
              /\ lastOp'.calls = <<"prepare", "set">>
              /\ lastOp'.list.num_hw_layers = 2
              /\ lastOp'.prep \in Statuses /\ lastOp'.set \in Statuses
        /\ (Called("queue") /\ QueueScan(0, bufs) = NoIdx) =>
              lastOp'.calls = <<>>
        /\ (Called("dequeue") \/ Called("cancel")) => lastOp'.calls = <<>>
      ]_vars

\* C18 witness: a queue_buffer ran the composer although prepare failed, and
\* the slots are full, so the next queue_buffer finds no slot.
C18_Witness ==
    /\ lastOp.op = "queue" /\ lastOp.calls = <<"prepare", "set">>
    /\ lastOp.prep # 0
    /\ QueueScan(0, bufs) = NoIdx /\ held # {}

\* C19: no fd is closed twice.  A step closes an fd only if it is the retire
\* fence the composer left in the list of this queue_buffer, or the fence
\* passed to this successful cancel_buffer, and then once; the fence passed
\* to queue_buffer, the release fence stored in a slot and the fence handed
\* out by dequeue_buffer are never closed.
C19_ClosesOnlyOwnFences ==
    /\ \A fd \in Fds : closed[fd] = 0
    /\ [][ \A fd \in Fds :
             /\ closed'[fd] = closed[fd]
                   + (IF Called("queue") /\ lastOp'.calls # <<>>
                         /\ lastOp'.retire = fd THEN 1 ELSE 0)
                   + (IF Called("cancel") /\ lastOp'.ret = 0
                         /\ lastOp'.fence = fd THEN 1 ELSE 0)
             /\ closed'[fd] <= 1
             /\ (Called("queue") /\ fd \in {lastOp'.fence, lastOp'.rel}) =>
                   closed'[fd] = 0
             /\ (\E i \in Slots : fences'[i] = fd) => closed'[fd] = 0
             /\ handed'[fd] > 0 => closed'[fd] = 0 ]_vars

\* C19 witness: a queue_buffer given a fence got a release fence and a retire
\* fence from the composer; only the retire fence is closed.
C19_Witness ==
    /\ lastOp.op = "queue" /\ lastOp.fence >= 0 /\ lastOp.rel >= 0
    /\ lastOp.retire >= 0
    /\ closed[lastOp.retire] = 1
    /\ closed[lastOp.fence] = 0 /\ closed[lastOp.rel] = 0

\* C20: the list draw builds for queue_buffer(b, f) has two layers; layer 1
\* has b's handle, source crop and display frame (0, 0, b.width, b.height)
\* and f as acquire fence; what draw returns, which queue_buffer stores in
\* the slot, is the release fence the composer left in layer 1.
C20_LayerList ==
    [][ (Called("queue") /\ lastOp'.calls # <<>>) =>
           LET l == lastOp'.list
               b == lastOp'.buf
               full == [left |-> 0, top |-> 0, right |-> bufobj[b].width,
                        bottom |-> bufobj[b].height]
           IN  /\ l.num_hw_layers = 2
               /\ DOMAIN l.hw_layers = 0 .. 1
               /\ l.hw_layers[1].handle = b
               /\ l.hw_layers[1].source_crop = full
               /\ l.hw_layers[1].display_frame = full
               /\ l.hw_layers[1].acquire_fence_fd = lastOp'.fence
               /\ l.hw_layers[1].release_fence_fd = lastOp'.rel
               /\ fences'[QueueScan(0, bufs)]
                     = l.hw_layers[1].release_fence_fd ]_vars

\* C20 witness: a queue_buffer passed a fence, and the composer left a release
\* fence in layer 1, which is now in the slot.
C20_Witness ==
    /\ lastOp.op = "queue" /\ lastOp.calls # <<>>
    /\ lastOp.fence >= 0 /\ lastOp.rel >= 0
    /\ lastOp.list.hw_layers[1].acquire_fence_fd = lastOp.fence
    /\ lastOp.list.hw_layers[1].source_crop.right = 480
    /\ \E i \in Slots : bufs[i] = lastOp.buf /\ fences[i] = lastOp.rel

\* C21 (as claimed): with inc_ref and dec_ref run by two threads at once, no
\* increment or decrement is lost, so once every call has returned the count
\* is 1 + retains - releases, and the object has been dropped once if the
\* releases exceed the retains by one and not at all otherwise.
C21_AtomicCount ==
    (\A t \in Threads : thr[t].pc = "idle") =>
       \A o \in {Window} \cup DOMAIN bufobj :
          LET dropped == IF o = Window THEN wdestroyed ELSE bdestroyed[o] IN
          /\ CountOf(o) = 1 + retains[o] - releases[o]
          /\ dropped = IF releases[o] = retains[o] + 1 THEN 1 ELSE 0

\* C22 (as claimed): every set_usage leaves last_idx at -1 and both fences at
\* -1, so that the next dequeue_buffer takes slot 0 and the one after it
\* slot 1, each with fence -1.
C22_ConfigureResets ==
    [][ Called("set_usage") =>
          /\ last_idx' = NoIdx
          /\ \A i \in Slots : fences'[i] = NoFence
          /\ DequeueScan(0, bufs', last_idx') = 0
          /\ LET e == DequeueEffect(bufs', fences', last_idx', 0) IN
             /\ e.fence = NoFence
             /\ DequeueScan(0, e.bufs, e.last_idx) = 1 ]_vars

\* C23 (as claimed): after a set_usage, every buffer in a slot is one that
\* the most recent set_usage allocated; a buffer dequeued before it never
\* gets back into a slot.
C23_SlotsHoldNewest ==
    (alive /\ nextBuf > 1) =>
       \A i \in Slots :
          bufs[i] # None => bufs[i] \in {nextBuf - 2, nextBuf - 1}

\* C24: last_idx is -1 or the index of a slot that holds a buffer, in the
\* initial state and after every step; so a successful cancel_buffer stores
\* its buffer in a slot other than last_idx, where dequeue_buffer's scan can
\* take it.
C24_LastIdxSlotIsFull ==
    /\ last_idx = NoIdx
    /\ [][ /\ last_idx' = NoIdx \/ bufs'[last_idx'] # None
           /\ (Called("cancel") /\ lastOp'.ret = 0) =>
                 \E i \in Slots :
                    /\ bufs'[i] = lastOp'.buf
                    /\ i # last_idx'
                    /\ i \in {j \in Slots : j # last_idx' /\ bufs'[j] # None}
                    /\ DequeueScan(i, bufs', last_idx') = i ]_vars

\* C24 witness: slot 0 is the presented slot and holds a buffer, and a buffer
\* was just cancelled into slot 1.
C24_Witness ==
    /\ lastOp.op = "cancel" /\ lastOp.ret = 0
    /\ last_idx = 0 /\ bufs[0] # None /\ bufs[0] # lastOp.buf
    /\ bufs[1] = lastOp.buf
    /\ DequeueScan(0, bufs, last_idx) = 1

\* C25 (as claimed): a buffer handed out by dequeue_buffer has the width,
\* height, format and usage that query reports at that moment, whatever
\* set_format, set_dimensions and set_usage calls came before.
C25_BufferMatchesQueries ==
    [][ (Called("dequeue") /\ lastOp'.ret = 0) =>
           LET b == bufobj'[lastOp'.buf]
               q(what) == QueryValue(width', height', format', usage',
                                     what).value
           IN  /\ b.width = q(NATIVE_WINDOW_WIDTH)
               /\ b.height = q(NATIVE_WINDOW_HEIGHT)
               /\ b.format = q(NATIVE_WINDOW_FORMAT)
               /\ b.usage = q(NATIVE_WINDOW_CONSUMER_USAGE_BITS) ]_vars

\* The step just taken handled a SYN_REPORT.
Reported == tev'.kind = "syn" /\ vars' # vars

Kinds(evs) == {evs[k].ev : k \in DOMAIN evs}

\* C26: a SYN_REPORT handled after a tracking-id change of the same read,
\* with no contact in slot 0, sends MouseDown, MouseUp, Click, in that order
\* and nothing else, all with the left button at slot 0's position, when the
\* squared distance from (first_x, first_y) is below 16, and sends nothing
\* when it is 16 or more.
C26_ClickOnTouchUp ==
    [][ (Reported /\ tracking_updated /\ slots[0].tracking_id = NoContact) =>
           LET dx == slots[0].x - first_x
               dy == slots[0].y - first_y
               at(ev) == [ev |-> ev, button |-> "Left", x |-> slots[0].x,
                          y |-> slots[0].y]
           IN  IF dx * dx + dy * dy < 16
               THEN sent' = <<at("MouseDown"), at("MouseUp"), at("Click")>>
               ELSE sent' = <<>> ]_vars

\* C26 witness: a click was sent at (0, 1), one unit from where the contact
\* went down.
C26_Witness ==
    /\ tev.kind = "syn" /\ Len(sent) = 3 /\ sent[3].ev = "Click"
    /\ sent[3].x = 0 /\ sent[3].y = 1
    /\ first_x = 0 /\ first_y = 0

\* C27 (as claimed): a report sends MouseDown, MouseUp or Click only if slot
\* 0's contact ended in it; a contact beginning or ending in another slot
\* while slot 0 has none sends none of them.
C27_ClickOnlyForSlot0 ==
    [][ (Reported /\ Kinds(sent') \cap {"MouseDown", "MouseUp", "Click"} # {})
           => ended0 ]_vars

\* C28 (as claimed): a report that follows a contact's begin or end is
\* handled as a touch down or up and sends no Scroll, whether or not a
\* device read ended between the tracking-id event and the SYN_REPORT.
C28_SplitReadsAgree ==
    [][ (Reported /\ changed) => "Scroll" \notin Kinds(sent') ]_vars

====
